---- MODULE Spec2Model ----
(***************************************************************************)
(* Model of the portfolio service of src/backend.py: the class             *)
(* FinancialPortfolioTracker, one psycopg2 connection/cursor pair used     *)
(* sequentially, and the two tables it reads and writes.                   *)
(*                                                                         *)
(* Representation of values                                                *)
(*   - dates are integers YYYYMMDD;                                        *)
(*   - cost_basis and amount (NUMERIC, Decimal in Python) are integers in  *)
(*     units of 1/MoneyScale; shares are whole numbers;                    *)
(*   - Decimal('1.10') is GainRate / RateScale, so current_price,          *)
(*     current_value and gain_loss are integers in units of                *)
(*     1/(MoneyScale * RateScale);                                         *)
(*   - float(x) of a Decimal is the double nearest to x; on the amounts of *)
(*     the model (far below 2^53 hundredths) distinct decimals give        *)
(*     distinct doubles, so a float is written Float(x): the tag "float"   *)
(*     and the decimal it is nearest to;                                   *)
(*   - the mean of a column is the fraction Mean(sum, count); the integer  *)
(*     0 is Mean(0, 1) and the mean of no rows (NaN) is Mean(0, 0).        *)
(***************************************************************************)
EXTENDS Integers, Sequences, FiniteSets, Bags

VARIABLES assets, transactions, conn_status, last

vars == <<assets, transactions, conn_status, last>>

(***************************************************************************)
(* Bounds and input domains                                                *)
(***************************************************************************)
MaxTxns == 2

MoneyScale == 100
GainRate == 110
RateScale == 100

TickerOrder == <<"AAPL", "AAPLX">>
Tickers == {TickerOrder[i] : i \in DOMAIN TickerOrder}
\* the field values the asset forms submit: purchase_date, shares, cost_basis,
\* asset_class
AssetInputs ==
    { <<20240101, 10, 1500 * MoneyScale, "Equities">>,
      <<20240201, 2, 500 * MoneyScale, "Crypto">>,
      <<20240201, 10, 500 * MoneyScale, "Equities">>,
      <<20240101, 2, 1000 * MoneyScale, "Crypto">> }
TxnDates == {20240301, 20240302}
TxnTypes == {"Buy"}
TxnAmounts == {250 * MoneyScale}
TxnNotes == {"rebalance"}

NoTicker == "-"

(***************************************************************************)
(* Python values                                                           *)
(***************************************************************************)
Float(x) == [float |-> x]

\* a column value the cursor returns: None for SQL NULL
None == [none |-> TRUE, value |-> 0]
Some(x) == [none |-> FALSE, value |-> x]
IsNone(x) == x.none

EmptyDict == [k \in {} |-> 0]

EmptyFrame == <<>>

\* sum of a column f of a set of rows (pandas Series.sum, SQL SUM)
RECURSIVE SumFn(_)
SumFn(f) ==
    IF DOMAIN f = {} THEN 0
    ELSE LET x == CHOOSE y \in DOMAIN f : TRUE
         IN  f[x] + SumFn([y \in DOMAIN f \ {x} |-> f[y]])

Min(S) == CHOOSE x \in S : \A y \in S : x <= y
Max(S) == CHOOSE x \in S : \A y \in S : x >= y

(***************************************************************************)
(* The relational schema (spec.md section 6; not created by the program)   *)
(***************************************************************************)
AssetRow(t, d, s, c, k) ==
    [ticker |-> t, purchase_date |-> d, shares |-> s, cost_basis |-> c,
     asset_class |-> k]

TxnRow(t, d, ty, a, n) ==
    [ticker |-> t, transaction_date |-> d, transaction_type |-> ty,
     amount |-> a, notes |-> n]

HasTicker(rows, t) == \E r \in rows : r.ticker = t

\* assets(ticker PRIMARY KEY/UNIQUE)
PkHolds(rows) == \A r1, r2 \in rows : r1.ticker = r2.ticker => r1 = r2

\* transactions(ticker REFERENCES assets)
FkHolds(rows, txns) == \A x \in BagToSet(txns) : HasTicker(rows, x.ticker)

\* ... with cascading delete on the asset reference
CascadeDelete(rows, txns) ==
    [x \in {y \in BagToSet(txns) : HasTicker(rows, y.ticker)} |-> txns[x]]

(***************************************************************************)
(* The connection: psycopg2 without autocommit.  A statement opens a       *)
(* transaction; a statement that raises leaves it aborted, and every       *)
(* statement on an aborted transaction raises until rollback().            *)
(***************************************************************************)
\* conn_status is "IDLE" (no transaction), "INTRANS" (one open) or "INERROR"
\* (one aborted)
ExecuteError(fault) ==
    IF conn_status = "INERROR" THEN "in_failed_transaction"
    ELSE IF fault THEN "db_error"
    ELSE "none"

Outcome(err, rows, txns) == [err |-> err, assets |-> rows, transactions |-> txns]

(***************************************************************************)
(* The SQL statements                                                      *)
(***************************************************************************)
\* INSERT INTO assets ... ON CONFLICT (ticker) DO NOTHING
InsertAssetUpsert(t, d, s, c, k) ==
    Outcome("none",
            {r \in assets : r.ticker # t} \cup {AssetRow(t, d, s, c, k)},
            transactions)

InsertAssetStmt(t, d, s, c, k) ==
    IF HasTicker(assets, t)
    THEN Outcome("none", assets, transactions)
    ELSE Outcome("none", assets \cup {AssetRow(t, d, s, c, k)}, transactions)

\* UPDATE assets SET ticker = .., .. WHERE ticker = original_ticker
UpdateAssetStmt(orig, new, d, s, c, k) ==
    LET rows == {r \in assets : r.ticker # orig}
                  \cup {AssetRow(new, d, s, c, k) : r \in {x \in assets : x.ticker = orig}}
        hit  == HasTicker(assets, orig)
    IN  IF hit /\ new # orig /\ HasTicker(assets, new)
        THEN Outcome("unique_violation", assets, transactions)
        ELSE IF ~FkHolds(rows, transactions)
        THEN Outcome("foreign_key_violation", assets, transactions)
        ELSE Outcome("none", rows, transactions)

\* DELETE FROM assets WHERE ticker = ..
DeleteAllAssets(t) == Outcome("none", {}, CascadeDelete({}, transactions))

DeleteAssetStmt(t) ==
    LET rows == {r \in assets : r.ticker # t}
    IN  Outcome("none", rows, CascadeDelete(rows, transactions))

\* INSERT INTO transactions (ticker, transaction_date, ..) VALUES (..)
InsertTransactionStmt(t, today, ty, a, n) ==
    LET txns == transactions (+) SetToBag({TxnRow(t, today, ty, a, n)})
    IN  IF ~FkHolds(assets, txns)
        THEN Outcome("foreign_key_violation", assets, transactions)
        ELSE Outcome("none", assets, txns)

(***************************************************************************)
(* Results of the read-only queries                                        *)
(***************************************************************************)
\* SELECT * FROM assets ORDER BY ticker
AssetsFrame(rows) ==
    LET present == SelectSeq(TickerOrder, LAMBDA t : HasTicker(rows, t))
    IN  [i \in DOMAIN present |-> CHOOSE r \in rows : r.ticker = present[i]]

\* SELECT * FROM transactions ORDER BY transaction_date DESC: every order of
\* the rows that is descending by date (rows of one date come in any order)
TransactionFrames(txns) ==
    LET n == BagCardinality(txns)
    IN  {f \in [1..n -> BagToSet(txns)] :
            /\ \A x \in BagToSet(txns) :
                   Cardinality({i \in 1..n : f[i] = x}) = txns[x]
            /\ \A i, j \in 1..n :
                   i < j => f[i].transaction_date >= f[j].transaction_date}

current_price(r) == r.cost_basis * GainRate
current_value(r) == r.shares * current_price(r)
gain_loss(r) == current_value(r) - r.cost_basis * RateScale
cost_of(r) == r.cost_basis
shares_of(r) == r.shares

\* the mean of a column is kept as the fraction sum / count
Mean(total, n) == [num |-> total, den |-> n]

ZeroSummary ==
    [total_assets_count |-> 0, total_cost_basis |-> 0, total_market_value |-> 0,
     total_gain_loss |-> 0, avg_cost_basis |-> Mean(0, 1)]

PortfolioSummaryNoEmptyGuard(rows) ==
    [total_assets_count |-> Cardinality(rows),
     total_cost_basis   |-> SumFn([x \in rows |-> cost_of(x)]),
     total_market_value |-> SumFn([x \in rows |-> current_value(x)]),
     total_gain_loss    |-> SumFn([x \in rows |-> gain_loss(x)]),
     avg_cost_basis     |-> Mean(SumFn([x \in rows |-> cost_of(x)]),
                                        Cardinality(rows))]

PortfolioSummaryPerHolding(rows) ==
    IF rows = {} THEN ZeroSummary
    ELSE [total_assets_count |-> Cardinality(rows),
          total_cost_basis   |-> SumFn([x \in rows |-> cost_of(x)]),
          total_market_value |-> SumFn([x \in rows |-> current_price(x)]),
          total_gain_loss    |-> SumFn([x \in rows |-> current_price(x)])
                                   - SumFn([x \in rows |-> cost_of(x)]) * RateScale,
          avg_cost_basis     |-> Mean(SumFn([x \in rows |-> cost_of(x)]),
                                        Cardinality(rows))]

PortfolioSummary(rows) ==
    IF rows = {} THEN ZeroSummary
    ELSE [total_assets_count |-> Cardinality(rows),
          total_cost_basis   |-> SumFn([x \in rows |-> cost_of(x)]),
          total_market_value |-> SumFn([x \in rows |-> current_value(x)]),
          total_gain_loss    |-> SumFn([x \in rows |-> gain_loss(x)]),
          avg_cost_basis     |-> Mean(SumFn([x \in rows |-> cost_of(x)]),
                                        Cardinality(rows))]

\* SELECT asset_class, SUM(cost_basis) FROM assets GROUP BY asset_class
ClassesOf(rows) == {r.asset_class : r \in rows}

AssetAllocationByShares(rows) ==
    [k \in ClassesOf(rows) |->
        Float(SumFn([x \in {r \in rows : r.asset_class = k} |-> shares_of(x)]))]

AssetAllocation(rows) ==
    [k \in ClassesOf(rows) |->
        Float(SumFn([x \in {r \in rows : r.asset_class = k} |-> cost_of(x)]))]

\* SELECT COUNT(*), SUM(cost_basis), AVG(cost_basis), MIN(shares), MAX(shares):
\* one row; over no rows COUNT is 0 and the other aggregates are NULL
AggregateRow(rows) ==
    IF rows = {} THEN <<Some(0), None, None, None, None>>
    ELSE <<Some(Cardinality(rows)),
           Some(SumFn([x \in rows |-> cost_of(x)])),
           Some(Mean(SumFn([x \in rows |-> cost_of(x)]), Cardinality(rows))),
           Some(Min({r.shares : r \in rows})),
           Some(Max({r.shares : r \in rows}))>>

FloatOrZero(x) == IF ~IsNone(x) THEN Float(x.value) ELSE Float(0)

ZeroInsights ==
    [total_assets |-> 0, total_cost_basis |-> Float(0), avg_cost_basis |-> Float(0),
     min_shares |-> Float(0), max_shares |-> Float(0)]

Insights(result) ==
    IF ~IsNone(result[1])
    THEN [total_assets     |-> result[1].value,
          total_cost_basis |-> FloatOrZero(result[2]),
          avg_cost_basis   |-> FloatOrZero(result[3]),
          min_shares       |-> FloatOrZero(result[4]),
          max_shares       |-> FloatOrZero(result[5])]
    ELSE ZeroInsights

(***************************************************************************)
(* The operations of FinancialPortfolioTracker.  last is the call that has *)
(* just returned: the operation, its arguments, the psycopg2 error the     *)
(* statement raised ("none" if it raised none) and the value returned.     *)
(* txns_before is history: the number of transaction rows before the call. *)
(***************************************************************************)
NoArgs == <<>>

Called(op, t, new, args, err, ret) ==
    [op |-> op, ticker |-> t, new_ticker |-> new, args |-> args, err |-> err,
     ret |-> ret, txns_before |-> BagCardinality(transactions)]

\* self.cursor.execute(..): the statement's outcome on this connection
Execute(fault, stmt) ==
    IF ExecuteError(fault) # "none"
    THEN Outcome(ExecuteError(fault), assets, transactions)
    ELSE stmt

\* self.conn.commit()
Commit(stmt) ==
    /\ assets' = stmt.assets
    /\ transactions' = stmt.transactions
    /\ conn_status' = "IDLE"

\* self.conn.rollback()
Rollback ==
    /\ UNCHANGED <<assets, transactions>>
    /\ conn_status' = "IDLE"

\* a query that returned: the transaction it opened stays open
Fetched ==
    /\ UNCHANGED <<assets, transactions>>
    /\ conn_status' = "INTRANS"

\* an except branch that does not roll back: the transaction stays aborted
NotRolledBack ==
    /\ UNCHANGED <<assets, transactions>>
    /\ conn_status' = "INERROR"

create_asset ==
    \E t \in Tickers, in \in AssetInputs, fault \in BOOLEAN :
        LET stmt == Execute(fault, InsertAssetStmt(t, in[1], in[2], in[3], in[4]))
        IN  IF stmt.err = "none"
            THEN /\ Commit(stmt)
                 /\ last' = Called("create_asset", t, NoTicker, in, "none", TRUE)
            ELSE /\ Rollback
                 /\ last' = Called("create_asset", t, NoTicker, in, stmt.err, FALSE)

read_all_assets ==
    \E fault \in BOOLEAN :
        LET stmt == Execute(fault, Outcome("none", assets, transactions))
        IN  IF stmt.err = "none"
            THEN /\ Fetched
                 /\ last' = Called("read_all_assets", NoTicker, NoTicker, NoArgs,
                                   "none", AssetsFrame(assets))
            ELSE /\ NotRolledBack
                 /\ last' = Called("read_all_assets", NoTicker, NoTicker, NoArgs,
                                   stmt.err, EmptyFrame)

update_asset_no_rollback ==
    \E orig \in Tickers, new \in Tickers, in \in AssetInputs, fault \in BOOLEAN :
        LET stmt == Execute(fault, UpdateAssetStmt(orig, new, in[1], in[2], in[3], in[4]))
        IN  IF stmt.err = "none"
            THEN /\ Commit(stmt)
                 /\ last' = Called("update_asset", orig, new, in, "none", TRUE)
            ELSE /\ NotRolledBack
                 /\ last' = Called("update_asset", orig, new, in, stmt.err, FALSE)

update_asset ==
    \E orig \in Tickers, new \in Tickers, in \in AssetInputs, fault \in BOOLEAN :
        LET stmt == Execute(fault, UpdateAssetStmt(orig, new, in[1], in[2], in[3], in[4]))
        IN  IF stmt.err = "none"
            THEN /\ Commit(stmt)
                 /\ last' = Called("update_asset", orig, new, in, "none", TRUE)
            ELSE /\ Rollback
                 /\ last' = Called("update_asset", orig, new, in, stmt.err, FALSE)

delete_asset ==
    \E t \in Tickers, fault \in BOOLEAN :
        LET stmt == Execute(fault, DeleteAssetStmt(t))
        IN  IF stmt.err = "none"
            THEN /\ Commit(stmt)
                 /\ last' = Called("delete_asset", t, NoTicker, NoArgs, "none", TRUE)
            ELSE /\ Rollback
                 /\ last' = Called("delete_asset", t, NoTicker, NoArgs, stmt.err, FALSE)

\* the transactions table is capped at MaxTxns rows
add_transaction ==
    \E t \in Tickers, today \in TxnDates, ty \in TxnTypes, a \in TxnAmounts,
       n \in TxnNotes, fault \in BOOLEAN :
        LET stmt == Execute(fault, InsertTransactionStmt(t, today, ty, a, n))
        IN  /\ BagCardinality(transactions) < MaxTxns
            /\ IF stmt.err = "none"
               THEN /\ Commit(stmt)
                    /\ last' = Called("add_transaction", t, NoTicker,
                                      <<today, ty, a, n>>, "none", TRUE)
               ELSE /\ Rollback
                    /\ last' = Called("add_transaction", t, NoTicker,
                                      <<today, ty, a, n>>, stmt.err, FALSE)

get_all_transactions ==
    \E fault \in BOOLEAN, frame \in TransactionFrames(transactions) :
        LET stmt == Execute(fault, Outcome("none", assets, transactions))
        IN  IF stmt.err = "none"
            THEN /\ Fetched
                 /\ last' = Called("get_all_transactions", NoTicker, NoTicker, NoArgs,
                                   "none", frame)
            ELSE /\ NotRolledBack
                 /\ last' = Called("get_all_transactions", NoTicker, NoTicker, NoArgs,
                                   stmt.err, EmptyFrame)

get_portfolio_summary ==
    \E fault \in BOOLEAN :
        LET stmt == Execute(fault, Outcome("none", assets, transactions))
        IN  IF stmt.err = "none"
            THEN /\ Fetched
                 /\ last' = Called("get_portfolio_summary", NoTicker, NoTicker, NoArgs,
                                   "none", PortfolioSummary(stmt.assets))
            ELSE /\ NotRolledBack
                 /\ last' = Called("get_portfolio_summary", NoTicker, NoTicker, NoArgs,
                                   stmt.err, EmptyDict)

get_asset_allocation ==
    \E fault \in BOOLEAN :
        LET stmt == Execute(fault, Outcome("none", assets, transactions))
        IN  IF stmt.err = "none"
            THEN /\ Fetched
                 /\ last' = Called("get_asset_allocation", NoTicker, NoTicker, NoArgs,
                                   "none", AssetAllocation(stmt.assets))
            ELSE /\ NotRolledBack
                 /\ last' = Called("get_asset_allocation", NoTicker, NoTicker, NoArgs,
                                   stmt.err, EmptyDict)

get_insights ==
    \E fault \in BOOLEAN :
        LET stmt == Execute(fault, Outcome("none", assets, transactions))
        IN  IF stmt.err = "none"
            THEN /\ Fetched
                 /\ last' = Called("get_insights", NoTicker, NoTicker, NoArgs,
                                   "none", Insights(AggregateRow(stmt.assets)))
            ELSE /\ NotRolledBack
                 /\ last' = Called("get_insights", NoTicker, NoTicker, NoArgs,
                                   stmt.err, EmptyDict)

\* __init__ / connect: a fresh connection; the store starts empty
Init ==
    /\ assets = {}
    /\ transactions = EmptyBag
    /\ conn_status = "IDLE"
    /\ last = [op |-> "connect", ticker |-> NoTicker, new_ticker |-> NoTicker,
               args |-> NoArgs, err |-> "none", ret |-> TRUE, txns_before |-> 0]

Next ==
    \/ create_asset
    \/ read_all_assets
    \/ update_asset
    \/ delete_asset
    \/ add_transaction
    \/ get_all_transactions
    \/ get_portfolio_summary
    \/ get_asset_allocation
    \/ get_insights

Spec == Init /\ [][Next]_vars

(***************************************************************************)
(* Properties.  "The database executes the statement" means: the           *)
(* connection is not in a failed transaction when the call starts and the  *)
(* server raises no error of its own (fault); for a query that is          *)
(* last.err = "none".                                                      *)
(***************************************************************************)
MutatingOps == {"create_asset", "update_asset", "delete_asset", "add_transaction"}

TxnsOf(txns, t) == {x \in BagToSet(txns) : x.ticker = t}

\* the bag txns without its rows of ticker t
WithoutTicker(txns, t) ==
    [x \in {y \in BagToSet(txns) : y.ticker # t} |-> txns[x]]

\* the bag txns with ticker a written b in every row
Renamed(txns, a, b) ==
    LET ren(y) == IF y.ticker = a THEN [y EXCEPT !.ticker = b] ELSE y
        copies(y) == txns[y]
    IN  [x \in {ren(y) : y \in BagToSet(txns)} |->
            SumFn([y \in {z \in BagToSet(txns) : ren(z) = x} |-> copies(y)])]

\* C1: create_asset on a ticker that already has a row leaves the assets and
\* transactions tables exactly as they were, whatever field values it is given,
\* and returns True whenever the database executes the statement.
C1_DuplicateCreateIsNoOp ==
    [][ (last'.op = "create_asset" /\ HasTicker(assets, last'.ticker))
        => /\ assets' = assets
           /\ transactions' = transactions
           /\ (conn_status # "INERROR" /\ last'.err # "db_error"
                   => last'.ret = TRUE) ]_vars

\* reached: create_asset returned True for a ticker whose row is not the row
\* the call submitted (the earlier row was kept)
C1_Witness ==
    /\ last.op = "create_asset"
    /\ last.ret = TRUE
    /\ HasTicker(assets, last.ticker)
    /\ AssetRow(last.ticker, last.args[1], last.args[2], last.args[3], last.args[4])
           \notin assets

\* C2: after delete_asset(t) returned True there is no asset row and no
\* transaction row of ticker t and every row of another ticker is as it was;
\* and in every reachable state every transaction references an existing asset.
C2_DeleteCascades ==
    /\ [] FkHolds(assets, transactions)
    /\ [][ (last'.op = "delete_asset" /\ last'.ret = TRUE)
           => /\ ~HasTicker(assets', last'.ticker)
              /\ TxnsOf(transactions', last'.ticker) = {}
              /\ assets' = {r \in assets : r.ticker # last'.ticker}
              /\ transactions' = WithoutTicker(transactions, last'.ticker) ]_vars

\* reached: a delete removed transaction rows and left another asset with its
\* transaction in place
C2_Witness ==
    /\ last.op = "delete_asset"
    /\ last.ret = TRUE
    /\ last.txns_before > BagCardinality(transactions)
    /\ assets # {}
    /\ transactions # EmptyBag

\* C3: update_asset(a, b, ..) with a # b, a holding transactions and b not in
\* use, executed by the database, leaves b in the assets table, a not in it,
\* and every transaction of a recorded under b with its other fields kept.
C3_RenameCarriesTransactions ==
    [][ ( /\ last'.op = "update_asset"
          /\ last'.ticker # last'.new_ticker
          /\ HasTicker(assets, last'.ticker)
          /\ TxnsOf(transactions, last'.ticker) # {}
          /\ ~HasTicker(assets, last'.new_ticker)
          /\ conn_status # "INERROR"
          /\ last'.err # "db_error" )
        => /\ HasTicker(assets', last'.new_ticker)
           /\ ~HasTicker(assets', last'.ticker)
           /\ transactions' = Renamed(transactions, last'.ticker, last'.new_ticker) ]_vars

C5_AaplScenario ==
    ( /\ assets = {AssetRow("AAPL", 20240101, 10, 1500 * MoneyScale, "Equities")}
      /\ last.op = "get_portfolio_summary"
      /\ last.err = "none" )
    => /\ last.ret.total_cost_basis = 1500 * MoneyScale
       /\ last.ret.total_market_value = 1650 * MoneyScale * RateScale
       /\ last.ret.total_gain_loss = 150 * MoneyScale * RateScale

\* C6: a get_asset_allocation that the database executes returns one key per
\* asset_class in use, each value the sum of cost_basis of that class; the
\* values sum to the total cost basis that get_portfolio_summary and
\* get_insights report.
C6_AllocationByClass ==
    (last.op = "get_asset_allocation" /\ last.err = "none")
    => LET cost(r) == r.cost_basis
           part(k) == last.ret[k].float
       IN  /\ DOMAIN last.ret = {r.asset_class : r \in assets}
           /\ \A k \in DOMAIN last.ret :
                  last.ret[k] =
                      Float(SumFn([x \in {r \in assets : r.asset_class = k} |-> cost(x)]))
           /\ SumFn([k \in DOMAIN last.ret |-> part(k)])
                  = SumFn([x \in assets |-> cost(x)])
           /\ SumFn([k \in DOMAIN last.ret |-> part(k)])
                  = PortfolioSummary(assets).total_cost_basis
           /\ Float(SumFn([k \in DOMAIN last.ret |-> part(k)]))
                  = Insights(AggregateRow(assets)).total_cost_basis

\* reached: the allocation of one Equities asset and one Crypto asset
C6_Witness ==
    /\ last.op = "get_asset_allocation"
    /\ last.err = "none"
    /\ Cardinality(assets) = 2
    /\ DOMAIN last.ret = {"Equities", "Crypto"}
    /\ last.ret["Equities"] = Float(1500 * MoneyScale)
    /\ last.ret["Crypto"] = Float(500 * MoneyScale)

\* C7: a mutating operation whose statement raises a database error returns
\* False, leaves both tables as they were and leaves the connection rolled
\* back; and in every reachable state no two asset rows share a ticker.
C7_FailedMutationRollsBack ==
    /\ [] PkHolds(assets)
    /\ [][ (last'.op \in MutatingOps /\ last'.err # "none")
           => /\ last'.ret = FALSE
              /\ assets' = assets
              /\ transactions' = transactions
              /\ conn_status' = "IDLE" ]_vars

\* reached: update_asset renamed onto a ticker another asset holds
C7_Witness ==
    /\ last.op = "update_asset"
    /\ last.err = "unique_violation"
    /\ last.ret = FALSE
    /\ Cardinality(assets) = 2

\* C8: when the statement of get_portfolio_summary or get_insights raises a
\* database error, the operation returns every field of its all-zero structure.
C8_ErrorGivesZeroStructure ==
    /\ (last.op = "get_portfolio_summary" /\ last.err # "none")
           => /\ DOMAIN last.ret = DOMAIN ZeroSummary
              /\ \A f \in DOMAIN last.ret : last.ret[f] = ZeroSummary[f]
    /\ (last.op = "get_insights" /\ last.err # "none")
           => /\ DOMAIN last.ret = DOMAIN ZeroInsights
              /\ \A f \in DOMAIN last.ret : last.ret[f] = ZeroInsights[f]

\* C9: over an empty assets table a get_insights that the database executes
\* returns total_assets, total_cost_basis, avg_cost_basis, min_shares and
\* max_shares all zero, and a get_portfolio_summary returns its five fields all
\* zero; no field is missing.
C9_EmptyTableGivesZeros ==
    (assets = {} /\ last.err = "none")
    => /\ last.op = "get_insights"
           => /\ DOMAIN last.ret = {"total_assets", "total_cost_basis",
                                    "avg_cost_basis", "min_shares", "max_shares"}
              /\ last.ret.total_assets = 0
              /\ last.ret.total_cost_basis.float = 0
              /\ last.ret.avg_cost_basis.float = 0
              /\ last.ret.min_shares.float = 0
              /\ last.ret.max_shares.float = 0
       /\ last.op = "get_portfolio_summary"
           => /\ DOMAIN last.ret = {"total_assets_count", "total_cost_basis",
                                    "total_market_value", "total_gain_loss",
                                    "avg_cost_basis"}
              /\ last.ret.total_assets_count = 0
              /\ last.ret.total_cost_basis = 0
              /\ last.ret.total_market_value = 0
              /\ last.ret.total_gain_loss = 0
              /\ last.ret.avg_cost_basis.num = 0
              /\ last.ret.avg_cost_basis.den # 0

\* reached: get_insights over the table emptied by a delete
C9_Witness ==
    /\ assets = {}
    /\ last.op = "get_insights"
    /\ last.err = "none"
    /\ last.ret.total_assets = 0

\* C10: every operation whose statement raised rolls back before it returns:
\* no call returns with the connection in an aborted transaction.
C10_FailureAlwaysRolledBack ==
    last.err # "none" => conn_status # "INERROR"

====
